---- MODULE Spec2Model ----
(***************************************************************************)
(* Model of class ImageLoadQueue of src/static/js/main.js (lines 9-232):   *)
(* a pending queue sorted by priority, a running counter bounded by        *)
(* maxConcurrent, a cache-first load with a network fallback, a retry      *)
(* timer that re-enters addImage, and a fire-and-forget cache write-back.  *)
(* JavaScript is single threaded: every handler (a call of addImage or     *)
(* clear, the continuation after an await, a timer callback) runs to its   *)
(* end before another starts, so each is one action.                       *)
(***************************************************************************)
EXTENDS Integers, Sequences, FiniteSets, Bags, TLC

\* ---- bounds of the model ------------------------------------------------
NumTargets == 2      \* image elements with a data-src: 1..NumTargets
MaxEvents == 4       \* calls of the page plus failed fetches in one run
MaxPriority == 1     \* the page submits the default priority 0 or MaxPriority

\* ---- program constants --------------------------------------------------
maxConcurrent == 2
maxRetries == 2
retryDelay == 500

Placeholder == "/static/images/viedeo_material_default.png"

\* Element 0 stands for an <img> without a data-src attribute.
Elements == 0..NumTargets
Priorities == {0, MaxPriority}

\* dataset.src of each element handed to addImage ("" = missing): proxied
\* image URLs and one data: URL.
InitialDataSrc(el) ==
    IF el = 0 THEN ""
    ELSE IF el % 3 = 1 THEN "/proxy/a"
    ELSE IF el % 3 = 2 THEN "data:b"
    ELSE "/proxy/c"

\* src.startsWith('data:')
IsDataUrl(u) == u \in {"data:b"}

\* URL.createObjectURL(blob) of the cached response for url
BlobOf(url) == "blob:" \o url

None == <<>>

NoSnap ==
    [taken |-> FALSE, inflight |-> {}, timer |-> {}, queued |-> {}, retryq |-> {},
     started |-> {}]

VARIABLES
    queue,      \* this.queue: sequence of [el, priority, retries, tries, p0]
    running,    \* this.running
    execs,      \* bag of suspended loadImage calls [el, priority, retries, tries, p0, phase]
    timers,     \* bag of pending retry setTimeout callbacks [el, priority, delay, tries, p0]
    writebacks, \* bag of cacheImage calls awaiting fetch(src) [url, src]
    cache,      \* keys stored in the Cache Storage namespace
    dsrc,       \* element.dataset.src
    esrc,       \* element.src
    cls,        \* element.classList (restricted to the three image-* classes)
    arrival,    \* history: the queued elements in the order they entered the queue
    events,     \* history: calls of the page and failed fetches so far
    snap,       \* history: what was in flight / on a timer / queued at the last clear()
    last        \* history: the handler that produced this state and what it did

vars == <<queue, running, execs, timers, writebacks, cache, dsrc, esrc, cls,
          arrival, events, snap, last>>

\* The state the handlers of ImageLoadQueue read and write, as one record.
\* dispatched, fetched, existing and dropped collect what the running handler
\* does (history): the requests processQueue shifts off the queue, the
\* elements for which loadImageFromNetwork sets img.src, whether addImage
\* found the element in the queue, and the elements clear() removed.
State ==
    [queue |-> queue, running |-> running, execs |-> execs, timers |-> timers,
     writebacks |-> writebacks, cache |-> cache, dsrc |-> dsrc, esrc |-> esrc,
     cls |-> cls, arrival |-> arrival, dispatched |-> <<>>, fetched |-> {},
     existing |-> FALSE, dropped |-> {}]

One(x) == SetToBag({x})

\* ---- Array.prototype.sort((a, b) => b.priority - a.priority) -------------
\* The sort is stable (ECMAScript 2019): equal priorities keep their order.
RECURSIVE InsertDesc(_, _)
InsertDesc(x, s) ==
    IF s = <<>> THEN <<x>>
    ELSE IF Head(s).priority >= x.priority THEN <<Head(s)>> \o InsertDesc(x, Tail(s))
    ELSE <<x>> \o s

\* Mutant: the sort is forgotten.
SortQueue_none(q) == q

RECURSIVE SortQueue(_)
SortQueue(q) ==
    IF q = <<>> THEN <<>>
    ELSE InsertDesc(q[Len(q)], SortQueue(SubSeq(q, 1, Len(q) - 1)))

\* this.queue.findIndex(item => item.element.id === imageId); 0 stands for -1
FindIndex(q, el) ==
    IF \E i \in 1..Len(q) : q[i].el = el
    THEN CHOOSE i \in 1..Len(q) : q[i].el = el /\ \A j \in 1..(i - 1) : q[j].el # el
    ELSE 0

PendingPriorities(q) == {q[i].priority : i \in 1..Len(q)}

\* The sequence s without the element x (history).
Without(s, x) == SelectSeq(s, LAMBDA y : y # x)

\* History: the elements that entered the queue before queueItem did, are
\* still queued and have the priority of queueItem.
EarlierEqual(st, queueItem) ==
    {st.queue[i].el : i \in {j \in 1..Len(st.queue) :
        /\ st.queue[j].el # queueItem.el
        /\ st.queue[j].priority = queueItem.priority
        /\ \E a, b \in 1..Len(st.arrival) :
              /\ st.arrival[a] = st.queue[j].el
              /\ st.arrival[b] = queueItem.el
              /\ a < b}}

\* ---- processQueue / loadImage (synchronous part) / completeImage ---------
RECURSIVE processQueue(_), loadImage(_, _), completeImage(_, _)

\* Mutant: the loop admits one request too many (<= for <).
processQueue_offByOne(st) ==
    IF st.running <= maxConcurrent /\ Len(st.queue) > 0
    THEN LET queueItem == Head(st.queue)
             rest == Tail(st.queue)
             shifted == [st EXCEPT !.queue = rest,
                                   !.arrival = Without(@, queueItem.el),
                                   !.dispatched = Append(@, [el |-> queueItem.el,
                                        priority |-> queueItem.priority,
                                        pending |-> PendingPriorities(rest),
                                        overtaken |-> EarlierEqual(st, queueItem)])]
         IN processQueue(loadImage(shifted, queueItem))
    ELSE st

processQueue(st) ==
    IF st.running < maxConcurrent /\ Len(st.queue) > 0
    THEN LET queueItem == Head(st.queue)
             rest == Tail(st.queue)
             shifted == [st EXCEPT !.queue = rest,
                                   !.arrival = Without(@, queueItem.el),
                                   !.dispatched = Append(@, [el |-> queueItem.el,
                                        priority |-> queueItem.priority,
                                        pending |-> PendingPriorities(rest),
                                        overtaken |-> EarlierEqual(st, queueItem)])]
         IN processQueue(loadImage(shifted, queueItem))
    ELSE st

\* Mutant: this.running++ is missing, the finally block still decrements.
loadImage_noIncrement(st, queueItem) ==
    IF st.dsrc[queueItem.el] = ""
    THEN completeImage(st, queueItem.el)
    ELSE [st EXCEPT !.execs = @ (+) One([el |-> queueItem.el,
                                         priority |-> queueItem.priority,
                                         retries |-> queueItem.retries,
                                         tries |-> queueItem.tries,
                                         p0 |-> queueItem.p0,
                                         phase |-> "cache"])]

\* loadImage up to its first await: the invalid-URL return, or running++ and
\* the call of getCachedImage.
loadImage(st, queueItem) ==
    IF st.dsrc[queueItem.el] = ""
    THEN completeImage(st, queueItem.el)
    ELSE [st EXCEPT !.running = @ + 1,
                    !.execs = @ (+) One([el |-> queueItem.el,
                                         priority |-> queueItem.priority,
                                         retries |-> queueItem.retries,
                                         tries |-> queueItem.tries,
                                         p0 |-> queueItem.p0,
                                         phase |-> "cache"])]

completeImage(st, el) ==
    processQueue([st EXCEPT !.dsrc[el] = "", !.running = @ - 1])

\* ---- addImage ------------------------------------------------------------
\* tries and p0 are history: the number of failed attempts behind the call (0
\* when the page calls, k when the k-th retry timer of a chain of retries
\* calls) and the priority the page gave the first attempt of that chain. A
\* queued entry whose priority a call overwrites takes the history of the call.
\* Mutant: the findIndex check is missing, every call pushes an entry.
addImage_noDedup(st, el, priority, tries, p0) ==
    IF st.dsrc[el] = ""
    THEN st
    ELSE processQueue([st EXCEPT !.queue =
             SortQueue(Append(@, [el |-> el, priority |-> priority,
                                  retries |-> 0, tries |-> tries, p0 |-> p0])),
                                 !.arrival = Append(@, el)])

\* Mutant: the check of imgElement.dataset.src is missing.
addImage_noCheck(st, el, priority, tries, p0) ==
    LET existingIndex == FindIndex(st.queue, el) IN
    IF existingIndex # 0
    THEN [st EXCEPT !.queue = SortQueue([@ EXCEPT ![existingIndex].priority = priority,
                                                 ![existingIndex].tries = tries,
                                                 ![existingIndex].p0 = p0]),
                    !.existing = TRUE]
    ELSE processQueue([st EXCEPT !.queue =
             SortQueue(Append(@, [el |-> el, priority |-> priority,
                                  retries |-> 0, tries |-> tries, p0 |-> p0])),
                                 !.arrival = Append(@, el)])

addImage(st, el, priority, tries, p0) ==
    IF st.dsrc[el] = ""
    THEN st
    ELSE LET existingIndex == FindIndex(st.queue, el) IN
         IF existingIndex # 0
         THEN [st EXCEPT !.queue = SortQueue([@ EXCEPT ![existingIndex].priority = priority,
                                                      ![existingIndex].tries = tries,
                                                      ![existingIndex].p0 = p0]),
                         !.existing = TRUE]
         ELSE processQueue([st EXCEPT !.queue =
                  SortQueue(Append(@, [el |-> el, priority |-> priority,
                                       retries |-> 0, tries |-> tries, p0 |-> p0])),
                                      !.arrival = Append(@, el)])

\* ---- clear ---------------------------------------------------------------
\* Mutant: clear() also resets the running counter.
clear_resetRunning(st) ==
    [st EXCEPT !.queue = <<>>, !.arrival = <<>>, !.running = 0,
               !.dropped = {st.queue[i].el : i \in 1..Len(st.queue)}]

clear(st) ==
    [st EXCEPT !.queue = <<>>, !.arrival = <<>>,
               !.dropped = {st.queue[i].el : i \in 1..Len(st.queue)}]

\* ---- loadImage after its awaits ------------------------------------------
\* finally { this.running--; this.processQueue(); } of the execution e
\* Mutant: the finally block frees the slot but does not call processQueue.
finally_noSchedule(st, e) ==
    [st EXCEPT !.running = @ - 1, !.execs = @ (-) One(e)]

finally(st, e) ==
    processQueue([st EXCEPT !.running = @ - 1, !.execs = @ (-) One(e)])

\* element.classList.add('image-loaded'); remove('image-loading', 'image-error')
markLoaded(st, el) ==
    [st EXCEPT !.cls[el] = (@ \cup {"image-loaded"}) \ {"image-loading", "image-error"}]

\* loadImageFromNetwork up to the creation of its promise: the element gets
\* image-loading, the timeout is armed and img.src = imageUrl starts the fetch.
loadImageFromNetwork(st, e) ==
    [st EXCEPT !.cls[e.el] = @ \cup {"image-loading"},
               !.execs = (@ (-) One(e)) (+) One([e EXCEPT !.phase = "net"]),
               !.fetched = @ \cup {e.el}]

\* retryDelay * Math.pow(2, retries)
RECURSIVE Pow2(_)
Pow2(n) == IF n = 0 THEN 1 ELSE 2 * Pow2(n - 1)

\* Mutant: a timeout gives up at once instead of taking the retry branch.
onNetworkFail_timeoutGivesUp(st, e, error) ==
    IF e.retries < maxRetries /\ error # "timeout"
    THEN finally([st EXCEPT !.timers = @ (+) One([el |-> e.el,
                                 priority |-> e.priority,
                                 delay |-> retryDelay * Pow2(e.retries + 1),
                                 tries |-> e.tries + 1,
                                 p0 |-> e.p0])], e)
    ELSE finally([st EXCEPT !.esrc[e.el] = Placeholder,
                            !.cls[e.el] = (@ \cup {"image-error"}) \ {"image-loading"}], e)

\* Mutant: the failed attempt keeps its slot while the retry timer runs.
onNetworkFail_holdsSlot(st, e, error) ==
    IF e.retries < maxRetries
    THEN [st EXCEPT !.timers = @ (+) One([el |-> e.el,
                                 priority |-> e.priority,
                                 delay |-> retryDelay * Pow2(e.retries + 1),
                                 tries |-> e.tries + 1,
                                 p0 |-> e.p0]),
                    !.execs = @ (-) One(e)]
    ELSE finally([st EXCEPT !.esrc[e.el] = Placeholder,
                            !.cls[e.el] = (@ \cup {"image-error"}) \ {"image-loading"}], e)

\* The promise awaited in the try block rejects with error (img.onerror, the
\* 10 s timeout): the catch block, which only logs error, and the finally
\* block.
onNetworkFail(st, e, error) ==
    IF e.retries < maxRetries
    THEN finally([st EXCEPT !.timers = @ (+) One([el |-> e.el,
                                 priority |-> e.priority,
                                 delay |-> retryDelay * Pow2(e.retries + 1),
                                 tries |-> e.tries + 1,
                                 p0 |-> e.p0])], e)
    ELSE finally([st EXCEPT !.esrc[e.el] = Placeholder,
                            !.cls[e.el] = (@ \cup {"image-error"}) \ {"image-loading"}], e)

\* What `await this.getCachedImage(imageUrl)` gives when the promise rejects.
Thrown == "throw"

\* Mutant: getCachedImage has no try/catch, a failing cache call rejects.
getCachedImage_noCatch(st, url, usable) ==
    IF ~usable THEN Thrown
    ELSE IF url \in st.cache THEN BlobOf(url) ELSE ""

\* getCachedImage(imageUrl) as the host answers it: the blob URL when the
\* cache is usable and holds the key, null when 'caches' is missing, when a
\* cache call throws (usable = FALSE) or when the key is absent.
getCachedImage(st, url, usable) ==
    IF usable /\ url \in st.cache THEN BlobOf(url) ELSE ""

\* Mutant: the cached image is ignored and the network is always used.
afterCacheLookup_alwaysNetwork(st, e, cachedImage) ==
    loadImageFromNetwork(st, e)

\* The continuation of loadImage after `await this.getCachedImage(imageUrl)`;
\* the await is inside the try block, so a rejection goes to the catch block.
afterCacheLookup(st, e, cachedImage) ==
    IF cachedImage = Thrown
    THEN onNetworkFail(st, e, "cache")
    ELSE IF cachedImage # ""
    THEN finally(markLoaded([st EXCEPT !.esrc[e.el] = cachedImage], e.el), e)
    ELSE loadImageFromNetwork(st, e)

\* Mutant: the src.startsWith('data:') check is missing.
cacheImage_cachesDataUrl(st, url, src, usable) ==
    IF ~usable
    THEN st
    ELSE [st EXCEPT !.writebacks = @ (+) One([url |-> url, src |-> src])]

\* cacheImage(url, src) up to its first await that can be outstanding: nothing
\* without 'caches' (or when caches.open throws: usable = FALSE), nothing for a
\* data URL, else fetch(src) is started and not awaited by loadImage.
cacheImage(st, url, src, usable) ==
    IF ~usable \/ IsDataUrl(src)
    THEN st
    ELSE [st EXCEPT !.writebacks = @ (+) One([url |-> url, src |-> src])]

\* Mutant: a cache that cannot be written sends the execution to the catch
\* block.
onNetworkLoad_cacheFailureRetries(st, e, usable) ==
    IF ~usable
    THEN onNetworkFail(st, e, "cache")
    ELSE LET imageUrl == st.dsrc[e.el]
             loadedSt == [st EXCEPT !.esrc[e.el] = imageUrl]
         IN finally(markLoaded(cacheImage(loadedSt, imageUrl, loadedSt.esrc[e.el], usable), e.el), e)

\* img.onload, then the rest of the try block and the finally block.
onNetworkLoad(st, e, usable) ==
    LET imageUrl == st.dsrc[e.el]
        loadedSt == [st EXCEPT !.esrc[e.el] = imageUrl]
    IN finally(markLoaded(cacheImage(loadedSt, imageUrl, loadedSt.esrc[e.el], usable), e.el), e)

\* The retry timer's callback: this.addImage(element, queueItem.priority - 1)
\* Mutant: the re-submission keeps the priority of the failed attempt.
onRetryTimer_samePriority(st, t) ==
    addImage([st EXCEPT !.timers = @ (-) One(t)], t.el, t.priority, t.tries, t.p0)

onRetryTimer(st, t) ==
    addImage([st EXCEPT !.timers = @ (-) One(t)], t.el, t.priority - 1, t.tries, t.p0)

\* cacheImage after fetch(src): cache.put(url, ...) when the response is ok,
\* nothing when it is not or when fetch / put throws.
afterWriteBackFetch(st, w, ok) ==
    [st EXCEPT !.writebacks = @ (-) One(w),
               !.cache = IF ok THEN @ \cup {w.url} ELSE @]

\* ---- the state machine ---------------------------------------------------
InFlight(st) == {e.el : e \in BagToSet(st.execs)}
OnTimer(st) == {t.el : t \in BagToSet(st.timers)}
Queued(st) == {st.queue[i].el : i \in 1..Len(st.queue)}
RetryQueued(st) == {st.queue[i].el : i \in {j \in 1..Len(st.queue) : st.queue[j].tries > 0}}

\* Writes the record a handler returns back to the variables.
\* op, el, priority and of (the execution, timer or write-back the handler
\* belongs to) are history.
Commit(state, op, el, priority, of, newSnap) ==
    \E st \in {state} :
    /\ queue' = st.queue
    /\ running' = st.running
    /\ execs' = st.execs
    /\ timers' = st.timers
    /\ writebacks' = st.writebacks
    /\ cache' = st.cache
    /\ dsrc' = st.dsrc
    /\ esrc' = st.esrc
    /\ cls' = st.cls
    /\ arrival' = st.arrival
    /\ last' = [op |-> op, el |-> el, priority |-> priority, of |-> of,
                dispatched |-> st.dispatched, fetched |-> st.fetched,
                existing |-> st.existing, dropped |-> st.dropped]
    /\ snap' = IF newSnap.taken
               THEN [newSnap EXCEPT !.started = @ \cup {st.dispatched[i].el : i \in 1..Len(st.dispatched)}]
               ELSE newSnap

\* The variables hold the record st, no handler has run since.
Holds(st) ==
    /\ queue = st.queue
    /\ running = st.running
    /\ execs = st.execs
    /\ timers = st.timers
    /\ writebacks = st.writebacks
    /\ cache = st.cache
    /\ dsrc = st.dsrc
    /\ esrc = st.esrc
    /\ cls = st.cls
    /\ arrival = st.arrival
    /\ events = 0
    /\ snap = NoSnap
    /\ last = [op |-> "init", el |-> 0, priority |-> 0, of |-> None,
               dispatched |-> <<>>, fetched |-> {}, existing |-> FALSE, dropped |-> {}]

\* new ImageLoadQueue(2) on a page whose elements have the data-src src[el].
Constructed(src) ==
    [queue |-> <<>>, running |-> 0, execs |-> EmptyBag, timers |-> EmptyBag,
     writebacks |-> EmptyBag, cache |-> {}, dsrc |-> src,
     esrc |-> [el \in Elements |-> ""], cls |-> [el \in Elements |-> {}],
     arrival |-> <<>>, dispatched |-> <<>>, fetched |-> {}, existing |-> FALSE,
     dropped |-> {}]

Init == Holds(Constructed([el \in Elements |-> InitialDataSrc(el)]))

\* The page calls imageLoadQueue.addImage(imgElement, priority).
PageAddImage ==
    /\ events < MaxEvents
    /\ events' = events + 1
    /\ \E el \in Elements, priority \in Priorities :
          Commit(addImage(State, el, priority, 0, priority), "addImage", el, priority, None, NoSnap)

\* The page calls imageLoadQueue.clear().
PageClear ==
    /\ events < MaxEvents
    /\ events' = events + 1
    /\ Commit(clear(State), "clear", 0, 0, None, NoSnap)

\* The same call, with the history of what was in flight, on a timer and
\* queued at that moment, kept until the page calls again.
PageClearSnap ==
    /\ events < MaxEvents
    /\ events' = events + 1
    /\ Commit(clear(State), "clear", 0, 0, None,
              [taken |-> TRUE, inflight |-> InFlight(State), timer |-> OnTimer(State),
               queued |-> Queued(State), retryq |-> RetryQueued(State), started |-> {}])

\* The cache works and holds the key: getCachedImage resolves with a blob URL.
CacheHit ==
    /\ UNCHANGED events
    /\ \E e \in BagToSet(execs) :
          /\ e.phase = "cache"
          /\ dsrc[e.el] \in cache
          /\ Commit(afterCacheLookup(State, e, getCachedImage(State, dsrc[e.el], TRUE)),
                    "cacheHit", e.el, e.priority, e, snap)

\* The cache works and does not hold the key.
CacheMiss ==
    /\ UNCHANGED events
    /\ \E e \in BagToSet(execs) :
          /\ e.phase = "cache"
          /\ dsrc[e.el] \notin cache
          /\ Commit(afterCacheLookup(State, e, getCachedImage(State, dsrc[e.el], TRUE)),
                    "cacheMiss", e.el, e.priority, e, snap)

\* The cache read fails: no 'caches' in window, or a cache call throws.
CacheFail ==
    /\ UNCHANGED events
    /\ \E e \in BagToSet(execs) :
          /\ e.phase = "cache"
          /\ Commit(afterCacheLookup(State, e, getCachedImage(State, dsrc[e.el], FALSE)),
                    "cacheFail", e.el, e.priority, e, snap)

\* img.onload fires.
NetworkLoad ==
    /\ UNCHANGED events
    /\ \E e \in BagToSet(execs), usable \in BOOLEAN :
          /\ e.phase = "net"
          /\ Commit(onNetworkLoad(State, e, usable), "networkLoad", e.el, e.priority, e, snap)

\* img.onerror fires.
NetworkError ==
    /\ events < MaxEvents
    /\ events' = events + 1
    /\ \E e \in BagToSet(execs) :
          /\ e.phase = "net"
          /\ Commit(onNetworkFail(State, e, "error"), "networkError", e.el, e.priority, e, snap)

\* The 10 s timeout of loadImageFromNetwork fires first.
NetworkTimeout ==
    /\ events < MaxEvents
    /\ events' = events + 1
    /\ \E e \in BagToSet(execs) :
          /\ e.phase = "net"
          /\ Commit(onNetworkFail(State, e, "timeout"), "networkTimeout", e.el, e.priority, e, snap)

\* A retry timer elapses.
RetryTimer ==
    /\ UNCHANGED events
    /\ \E t \in BagToSet(timers) :
          Commit(onRetryTimer(State, t), "retryTimer", t.el, t.priority - 1, t, snap)

\* The fetch of a cache write-back ends.
WriteBackDone ==
    /\ UNCHANGED events
    /\ \E w \in BagToSet(writebacks), ok \in BOOLEAN :
          Commit(afterWriteBackFetch(State, w, ok), "writeBack", 0, 0, w, snap)

Next ==
    \/ PageAddImage
    \/ PageClear
    \/ CacheHit
    \/ CacheMiss
    \/ CacheFail
    \/ NetworkLoad
    \/ NetworkError
    \/ NetworkTimeout
    \/ RetryTimer
    \/ WriteBackDone

Spec == Init /\ [][Next]_vars

\* ---- the same loader with the history of clear() ----------------------------
NextSnap ==
    \/ PageAddImage
    \/ PageClearSnap
    \/ CacheHit
    \/ CacheMiss
    \/ CacheFail
    \/ NetworkLoad
    \/ NetworkError
    \/ NetworkTimeout
    \/ RetryTimer
    \/ WriteBackDone

SpecSnap == Init /\ [][NextSnap]_vars

\* ---- a loader that is already busy ------------------------------------------
\* The state after the page has called addImage for elements 1 and 2 with the
\* default priority 0: both are in flight, every slot is taken.
InitBusy ==
    Holds(addImage(addImage(Constructed([el \in Elements |-> InitialDataSrc(el)]),
                            1, 0, 0, 0), 2, 0, 0, 0))

SpecBusy == InitBusy /\ [][Next]_vars

\* ---- distinct targets, no clear(), every fetch succeeds ---------------------
\* Every element has a data-src; elements 0 and 1 show the same image.
LiveDataSrc(el) == IF el = 0 THEN InitialDataSrc(1) ELSE InitialDataSrc(el)

InitLive == Holds(Constructed([el \in Elements |-> LiveDataSrc(el)]))

\* addImage has been called for el (it is queued, in flight or has been marked).
Submitted(el) == el \in Queued(State) \cup InFlight(State) \/ cls[el] # {}

\* The page calls addImage(imgElement), priority defaulting to 0, for an
\* element it has not submitted before.
PageAddNewImage ==
    /\ events < MaxEvents
    /\ events' = events + 1
    /\ \E el \in Elements :
          /\ ~Submitted(el)
          /\ Commit(addImage(State, el, 0, 0, 0), "addImage", el, 0, None, NoSnap)

CacheLookupDone == CacheHit \/ CacheMiss \/ CacheFail

NextLive ==
    \/ PageAddNewImage
    \/ CacheLookupDone
    \/ NetworkLoad
    \/ WriteBackDone

\* Every cache lookup settles and, by the hypothesis that every fetch
\* succeeds, every img.onload fires.
SpecLive ==
    /\ InitLive
    /\ [][NextLive]_vars
    /\ WF_vars(CacheLookupDone)
    /\ WF_vars(NetworkLoad)
    /\ WF_vars(WriteBackDone)

\* ---- finitely many calls of the page, every attempt settles -----------------
FetchDone == NetworkLoad \/ NetworkError \/ NetworkTimeout

\* The page of renderMonitors: clear(), then addImage(imgElement) for elements
\* not submitted before; fetches may fail and are retried.
NextFair ==
    \/ PageAddNewImage
    \/ PageClear
    \/ CacheLookupDone
    \/ FetchDone
    \/ RetryTimer
    \/ WriteBackDone

\* The page calls addImage and clear finitely often (MaxEvents); every cache
\* lookup settles, every network fetch ends with img.onload, img.onerror or
\* the 10 s timeout, every retry timer elapses and every write-back ends.
SpecFair ==
    /\ InitLive
    /\ [][NextFair]_vars
    /\ WF_vars(CacheLookupDone)
    /\ WF_vars(FetchDone)
    /\ WF_vars(RetryTimer)
    /\ WF_vars(WriteBackDone)

\* ---- claims ---------------------------------------------------------------
Completions == {"cacheHit", "networkLoad", "networkError", "networkTimeout"}

\* C1: in every reachable state the running counter stays within
\* 0 .. maxConcurrent.
C1_BoundedRunning == 0 <= running /\ running <= maxConcurrent

\* C1 witness: every slot is taken and a request waits in the queue.
C1_Witness == running = maxConcurrent /\ Len(queue) > 0

\* C2 (as claimed): no execution is more than the (maxRetries + 1)-th attempt
\* of a target submitted once whose earlier attempts all failed.
C2_RetryBound == \A e \in BagToSet(execs) : e.tries + 1 <= maxRetries + 1

\* C3: every request processQueue dispatched in the last handler had a
\* priority at least that of every request left pending at that moment.
C3_PriorityOrder ==
    \A i \in 1..Len(last.dispatched) :
        \A p \in last.dispatched[i].pending : p <= last.dispatched[i].priority

\* C3 witness: a request was dispatched ahead of a pending one of strictly
\* lower priority.
C3_Witness ==
    \E i \in 1..Len(last.dispatched) :
        \E p \in last.dispatched[i].pending : p < last.dispatched[i].priority

NoDuplicate(q) == \A i, j \in 1..Len(q) : q[i].el = q[j].el => i = j

\* C4: the queue never holds two entries for one element, and an addImage
\* (by the page or by a retry timer) for an element already queued leaves
\* the set of queued elements as it was and gives the entry the priority of
\* the call.
C4_Dedup ==
    [][/\ NoDuplicate(queue')
       /\ (/\ last'.op \in {"addImage", "retryTimer"}
           /\ dsrc[last'.el] # ""
           /\ FindIndex(queue, last'.el) # 0)
          => /\ Len(queue') = Len(queue)
             /\ Queued(State') = Queued(State)
             /\ queue'[FindIndex(queue', last'.el)].priority = last'.priority]_vars

\* C4 witness: the page re-submitted a queued element with a priority above 0
\* and the one entry of that element carries it.
C4_Witness ==
    /\ last.op = "addImage"
    /\ last.existing
    /\ \E i \in 1..Len(queue) : queue[i].el = last.el /\ queue[i].priority = last.priority
    /\ last.priority > 0

\* C5: the handler that receives a cache hit issues no network fetch, puts
\* the blob URL of the cached response in element.src and marks the element
\* image-loaded.
C5_CacheFirst ==
    last.op = "cacheHit" =>
        /\ last.fetched = {}
        /\ esrc[last.el] = BlobOf(dsrc[last.el])
        /\ "image-loaded" \in cls[last.el]
        /\ "image-loading" \notin cls[last.el]

\* C5 witness: an execution ended with a cache hit.
C5_Witness == last.op = "cacheHit" /\ dsrc[last.el] \in cache

\* C6: between handlers it is never the case that a slot is free while a
\* request is pending.
C6_WorkConserving == ~(running < maxConcurrent /\ Len(queue) > 0)

\* C6 witness: the completion of an execution admitted a pending request.
C6_Witness == last.op \in Completions /\ Len(last.dispatched) > 0

\* C7: clear() empties the queue and changes nothing else: the counter, the
\* executions in flight with their retry counts and phases, the retry timers,
\* the write-backs, the cache and the elements are as before.
C7_ClearFrame ==
    [][last'.op = "clear" =>
          /\ queue' = <<>>
          /\ UNCHANGED <<running, execs, timers, writebacks, cache, dsrc, esrc, cls>>]_vars

\* C7 witness: clear() was called with requests pending and executions in flight.
C7_Witness == last.op = "clear" /\ last.dropped # {} /\ running > 0 /\ execs # EmptyBag

\* C8 (as claimed, under SpecSnap): after clear() and no further addImage of the page, only
\* elements in flight at the moment of clear() are ever dispatched.
C8_OnlyInFlightRuns == snap.taken => snap.started \subseteq snap.inflight

\* C9 (as claimed, under SpecSnap): after clear() and no further addImage of the page, an
\* element whose retry was scheduled and not yet dispatched at the moment of
\* clear() (timer running or re-submission queued), and that was not in
\* flight then, is never dispatched.
C9_ClearCancelsRetries ==
    snap.taken => snap.started \cap ((snap.timer \cup snap.retryq) \ snap.inflight) = {}

\* C10 (as claimed): the operations outstanding at any moment, the executions
\* in flight plus the fetches of the cache write-backs, number at most
\* maxConcurrent.
C10_TotalOperations ==
    BagCardinality(execs) + BagCardinality(writebacks) <= maxConcurrent

Failures == {"networkError", "networkTimeout"}
NetExecs == {e \in BagToSet(execs) : e.phase = "net"}
CacheExecs == {e \in BagToSet(execs) : e.phase = "cache"}
ProgramPart(st) ==
    <<st.queue, st.running, st.execs, st.timers, st.writebacks, st.cache, st.dsrc,
      st.esrc, st.cls, st.fetched>>

\* C11 (as claimed): the timer armed after the k-th failed attempt of a chain
\* of retries has the delay retryDelay * 2^k (1000 ms, then 2000 ms).
C11_BackoffDelays == \A t \in BagToSet(timers) : t.delay = retryDelay * Pow2(t.tries)

\* C12 (as claimed): a request is never dispatched while a request of the
\* same priority that entered the queue before it is still pending.
C12_FifoAmongEqual ==
    \A i \in 1..Len(last.dispatched) : last.dispatched[i].overtaken = {}

\* C13 (as claimed): every element carries at most one of image-loading,
\* image-loaded and image-error.
C13_OneVisualState == \A el \in Elements : Cardinality(cls[el]) <= 1

Loaded(el) == "image-loaded" \in cls[el]
Idle == running = 0 /\ queue = <<>>

\* C14: with distinct targets, no clear() and fetches that all succeed, every
\* submitted element is eventually image-loaded and the loader ends up, for
\* good, with running = 0 and an empty queue.
C14_AllLoaded ==
    /\ \A el \in Elements : Submitted(el) ~> Loaded(el)
    /\ <>[]Idle

\* C14 witness: every element, one more than there are slots, has been
\* submitted and loaded and the loader is idle again.
C14_Witness == Idle /\ \A el \in Elements : Loaded(el)

\* C15: an addImage for an element without data-src changes nothing of the
\* loader or of any element, starts no execution and no fetch.
C15_InvalidNoOp ==
    [][(last'.op = "addImage" /\ dsrc[last'.el] = "") =>
          /\ UNCHANGED <<queue, running, execs, timers, writebacks, cache, dsrc, esrc, cls>>
          /\ last'.dispatched = <<>>
          /\ last'.fetched = {}]_vars

\* C15 witness: the page submitted an element without data-src while both
\* slots were taken and a request was pending.
C15_Witness ==
    /\ last.op = "addImage"
    /\ dsrc[last.el] = ""
    /\ running = maxConcurrent
    /\ Len(queue) > 0

\* C16: for every execution awaiting its cache lookup, a failing lookup
\* continues exactly as a miss does; and the handler of a failed lookup has
\* started the network fetch of that execution, which is still in flight,
\* has dispatched nothing and has not marked the element image-error.
C16_CacheFailureIsMiss ==
    /\ \A e \in CacheExecs :
          ProgramPart(afterCacheLookup(State, e, getCachedImage(State, dsrc[e.el], FALSE)))
              = ProgramPart(afterCacheLookup(State, e, ""))
    /\ last.op = "cacheFail" =>
          /\ last.fetched = {last.el}
          /\ last.dispatched = <<>>
          /\ BagIn([last.of EXCEPT !.phase = "net"], execs)
          /\ "image-error" \notin cls[last.el]

\* C16 witness: a lookup failed although the cache holds the key, and the
\* execution went on to the network.
C16_Witness ==
    last.op = "cacheFail" /\ dsrc[last.el] \in cache /\ last.fetched = {last.el}

\* C17: for every execution awaiting its network fetch, the handler run by
\* the timeout leaves the loader and the elements exactly as the handler run
\* by img.onerror does.
C17_TimeoutAsError ==
    \A e \in NetExecs :
        ProgramPart(onNetworkFail(State, e, "timeout"))
            = ProgramPart(onNetworkFail(State, e, "error"))

\* C17 witness: a fetch timed out and its retry timer is armed.
C17_Witness ==
    last.op = "networkTimeout" /\ \E t \in BagToSet(timers) : t.el = last.el

\* C18 (as claimed): the retries of an execution is the number of failed
\* attempts behind it in its chain of retries.
C18_RetryCountCarried == \A e \in BagToSet(execs) : e.retries = e.tries

\* C19: a failed attempt arms a timer with its own priority, the timer's
\* re-submission is queued or dispatched one below that priority, and every
\* request with k failed attempts behind it has the priority p0 - k, p0 being
\* the priority of the first submission.
C19_RetryPriority ==
    /\ (last.op \in Failures /\ last.of.retries < maxRetries) =>
          \E t \in BagToSet(timers) :
              t.el = last.of.el /\ t.priority = last.of.priority /\ t.tries = last.of.tries + 1
    /\ last.op = "retryTimer" =>
          \/ \E i \in 1..Len(queue) :
                queue[i].el = last.of.el /\ queue[i].priority = last.of.priority - 1
          \/ \E i \in 1..Len(last.dispatched) :
                /\ last.dispatched[i].el = last.of.el
                /\ last.dispatched[i].priority = last.of.priority - 1
    /\ \A i \in 1..Len(queue) : queue[i].priority = queue[i].p0 - queue[i].tries
    /\ \A e \in BagToSet(execs) : e.priority = e.p0 - e.tries

\* C19 witness: the second retry of a target is in flight, two below the
\* priority of its first submission.
C19_Witness ==
    /\ last.op = "retryTimer"
    /\ last.of.tries = 2
    /\ \E e \in BagToSet(execs) : e.el = last.el /\ e.tries = 2 /\ e.priority = e.p0 - 2

\* C20: the running counter equals the number of executions that have
\* started and have not reached their finally block.
C20_RunningCountsExecutions == running = BagCardinality(execs)

\* C20 witness: an execution has just ended while another is still in flight.
C20_Witness == last.op \in Completions /\ running = 1 /\ BagCardinality(execs) = 1

\* The retry count of every queued entry, by element.
RetryCounts(q) == {<<q[i].el, q[i].retries>> : i \in 1..Len(q)}

\* The queued entries of the elements other than el, in queue order.
Others(q, el) == SelectSeq(q, LAMBDA item : item.el # el)

\* C21: in every state, an addImage of the page for an element that is queued
\* leaves the set of queued elements, the length of the queue, the retry
\* counts, the other entries, the running counter, the executions, the
\* timers and the elements as they are, sorts the queue, and dispatches and
\* fetches nothing.
C21_ResubmitFrame ==
    \A el \in Queued(State), priority \in Priorities :
        LET r == addImage(State, el, priority, 0, priority) IN
        /\ Len(r.queue) = Len(queue)
        /\ Queued(r) = Queued(State)
        /\ RetryCounts(r.queue) = RetryCounts(queue)
        /\ Others(r.queue, el) = Others(queue, el)
        /\ r.queue[FindIndex(r.queue, el)].priority = priority
        /\ r.queue = SortQueue(r.queue)
        /\ r.running = running
        /\ r.execs = execs
        /\ r.timers = timers
        /\ <<r.writebacks, r.cache, r.dsrc, r.esrc, r.cls>> = <<writebacks, cache, dsrc, esrc, cls>>
        /\ r.dispatched = <<>>
        /\ r.fetched = {}

\* C21 witness: the page re-submitted a queued element while every slot was
\* taken by executions in flight, and nothing was dispatched.
C21_Witness ==
    /\ last.op = "addImage"
    /\ last.existing
    /\ last.dispatched = <<>>
    /\ running = maxConcurrent
    /\ BagCardinality(execs) = maxConcurrent

\* C22: the cache changes only in the handler that ends the fetch of a
\* write-back, which adds the key of that write-back; a write-back is started
\* only by the handler of img.onload of an execution awaiting its network
\* fetch, for an element whose data-src is not a data URL, with that data-src
\* as key; and no key of the cache is a data URL.
C22_CacheWrites ==
    [][/\ cache' # cache =>
             /\ last'.op = "writeBack"
             /\ BagIn(last'.of, writebacks)
             /\ cache' = cache \cup {last'.of.url}
       /\ (\E w \in BagToSet(writebacks') : CopiesIn(w, writebacks') > CopiesIn(w, writebacks)) =>
             /\ last'.op = "networkLoad"
             /\ last'.of.phase = "net"
             /\ ~IsDataUrl(dsrc[last'.el])
             /\ writebacks' = writebacks (+) One([url |-> dsrc[last'.el], src |-> dsrc[last'.el]])
             /\ "image-loaded" \in cls'[last'.el]
       /\ \A k \in cache' : ~IsDataUrl(k) /\ \E el \in Elements : dsrc[el] = k /\ k # ""]_vars

\* C22 witness: a write-back has stored the data-src of a loaded element, the
\* only key of the cache.
C22_Witness ==
    /\ last.op = "writeBack"
    /\ cache = {last.of.url}
    /\ \E el \in Elements : dsrc[el] = last.of.url /\ Loaded(el)

\* Everything the handlers read and write except the write-backs and the cache.
LoaderPart(st) ==
    <<st.queue, st.running, st.execs, st.timers, st.dsrc, st.esrc, st.cls,
      st.dispatched, st.fetched>>

\* C23: for every execution awaiting its network fetch, the handler of
\* img.onload with a cache that cannot be written leaves everything but the
\* write-backs as the handler with a working cache does: the element is
\* image-loaded, no timer is armed, the execution has ended and its slot is
\* free for the requests dispatched; and for every write-back, a failed fetch
\* or put changes nothing at all, a successful one nothing but the cache.
C23_CacheWriteFailure ==
    /\ \A e \in NetExecs :
          LET ok == onNetworkLoad(State, e, TRUE)
              ko == onNetworkLoad(State, e, FALSE)
          IN /\ LoaderPart(ko) = LoaderPart(ok)
             /\ ko.cache = cache /\ ok.cache = cache
             /\ ko.writebacks = writebacks
             /\ "image-loaded" \in ko.cls[e.el]
             /\ ko.timers = timers
             /\ CopiesIn(e, ko.execs) = CopiesIn(e, execs) - 1
             /\ ko.running = running - 1 + Len(ko.dispatched)
    /\ \A w \in BagToSet(writebacks) :
          LET ok == afterWriteBackFetch(State, w, TRUE)
              ko == afterWriteBackFetch(State, w, FALSE)
          IN /\ LoaderPart(ko) = LoaderPart(State)
             /\ LoaderPart(ok) = LoaderPart(State)
             /\ ko.cache = cache
             /\ ko.writebacks = writebacks (-) One(w)
             /\ ok.writebacks = ko.writebacks

\* C23 witness: the write-back of a loaded element has failed: the cache does
\* not hold its key, no timer is armed and no slot is taken.
C23_Witness ==
    /\ last.op = "writeBack"
    /\ last.of.url \notin cache
    /\ \E el \in Elements : dsrc[el] = last.of.url /\ Loaded(el)
    /\ timers = EmptyBag
    /\ running = 0

\* C24 (as claimed): an element carries image-loading only while an execution
\* for it awaits its network fetch.
C24_LoadingOnlyWhileFetching ==
    \A el \in Elements :
        "image-loading" \in cls[el] => \E e \in NetExecs : e.el = el

\* The number of executions in flight for el.
ExecutionsOf(el) ==
    BagCardinality([e \in {x \in BagToSet(execs) : x.el = el} |-> CopiesIn(e, execs)])

\* C25 (as claimed): no element has two executions in flight.
C25_OneExecutionPerTarget == \A el \in Elements : ExecutionsOf(el) <= 1

\* C26 (as claimed, under SpecBusy): in every state, the callback of any retry
\* timer leaves a queued entry of its element that the page last submitted
\* (no failed attempt behind it) with the priority the page gave it.
C26_RetryKeepsCallerPriority ==
    \A t \in BagToSet(timers) :
        LET existingIndex == FindIndex(queue, t.el) IN
        (existingIndex # 0 /\ queue[existingIndex].tries = 0) =>
            LET r == onRetryTimer(State, t) IN
            r.queue[FindIndex(r.queue, t.el)].priority = queue[existingIndex].priority

\* C27: for every execution awaiting its network fetch, the handler of a
\* failure that arms a retry timer ends the execution, frees its slot and
\* runs processQueue in the same step: one more timer of the element runs,
\* the counter is the number of executions in flight without the timers, the
\* head of a non-empty queue has been dispatched, and no slot is left free
\* while a request is pending.
C27_BackoffHoldsNoSlot ==
    \A e \in NetExecs, error \in Failures :
        LET r == onNetworkFail(State, e, error) IN
        e.retries < maxRetries =>
            /\ \E t \in BagToSet(r.timers) :
                  t.el = e.el /\ CopiesIn(t, r.timers) = CopiesIn(t, timers) + 1
            /\ BagCardinality(r.timers) = BagCardinality(timers) + 1
            /\ CopiesIn(e, r.execs) = CopiesIn(e, execs) - 1
            /\ r.running = running - 1 + Len(r.dispatched)
            /\ r.running = BagCardinality(r.execs)
            /\ queue # <<>> => Len(r.dispatched) >= 1 /\ r.dispatched[1].el = Head(queue).el
            /\ ~(r.running < maxConcurrent /\ r.queue # <<>>)

\* C27 witness: a fetch failed with every slot taken and a request pending;
\* the handler armed the retry timer and dispatched the pending request, so
\* both slots are taken by executions while the failed element waits.
C27_Witness ==
    /\ last.op \in Failures
    /\ Len(last.dispatched) > 0
    /\ \E t \in BagToSet(timers) : t.el = last.el
    /\ running = maxConcurrent
    /\ BagCardinality(execs) = maxConcurrent

====
